---- MODULE Spec2Model ----
(***************************************************************************)
(* Model of the Terraform provider resources of                            *)
(* jfrog/terraform-provider-projects:                                      *)
(*   - the "project" resource          (src/pkg/projects/project.go)       *)
(*   - the "project group" membership  (src/unnamed/part_000)              *)
(* One resource instance is managed per behaviour; the handlers run        *)
(* synchronously, one at a time, against a remote store.                   *)
(*                                                                         *)
(* Strings that the code takes apart (resource IDs of the membership,      *)
(* the operands of the diff-suppression function) are sequences of         *)
(* one-character strings.  Go's int is the 64-bit two's complement int of  *)
(* the amd64/arm64 builds, kept as a little-endian sequence of 16-bit      *)
(* limbs so that products by 1024 wrap exactly as the machine's do.        *)
(***************************************************************************)
EXTENDS Integers, Sequences, FiniteSets, TLC

VARIABLES
    rtype,    \* which schema.Resource the managed instance belongs to
    data,     \* the instance's schema.ResourceData (ID and attributes)
    remote,   \* the remote store: resource path -> stored body
    last,     \* the last handler invocation: operation, input, requests, error
    arg,      \* operands handed to a schema callback (pure function)
    result    \* what that callback returned

vars == <<rtype, data, remote, last, arg, result>>

\* no operands yet, no result yet
NoArg == [old |-> <<>>, new |-> <<>>]

NoResult == [set |-> FALSE, val |-> FALSE]

Returned(v) == [set |-> TRUE, val |-> v]

-----------------------------------------------------------------------------
(* Go int: 64 bits, two's complement, wrapping arithmetic.                 *)

Limb == 256 * 256

IntLimbs == 4

Int0 == [i \in 1..IntLimbs |-> 0]

IntMinusOne == [i \in 1..IntLimbs |-> Limb - 1]

\* the int with value n, for 0 <= n < 2^31
IntOf(n) == [i \in 1..IntLimbs |-> IF i = 1 THEN n % Limb
                                   ELSE IF i = 2 THEN n \div Limb ELSE 0]

IsNegative(v) == v[IntLimbs] >= Limb \div 2

\* limbs of v*m + c from limb i on, followed by the carry out of the top limb
RECURSIVE MulAddFrom(_, _, _, _)
MulAddFrom(v, m, c, i) ==
    IF i > Len(v) THEN <<c>>
    ELSE LET t == v[i] * m + c
         IN  <<t % Limb>> \o MulAddFrom(v, m, t \div Limb, i + 1)

\* v * m in Go: the carry out of the top limb is lost
Times(v, m) == SubSeq(MulAddFrom(v, m, 0, 1), 1, IntLimbs)

\* -v in Go
Negate(v) ==
    SubSeq(MulAddFrom([i \in 1..IntLimbs |-> Limb - 1 - v[i]], 1, 1, 1), 1, IntLimbs)

\* limbs 1..i of the quotient of the non-negative v by m, r the running remainder
RECURSIVE DivFrom(_, _, _, _)
DivFrom(v, m, i, r) ==
    IF i = 0 THEN <<>>
    ELSE LET t == r * Limb + v[i]
         IN  DivFrom(v, m, i - 1, t % m) \o <<t \div m>>

\* v / m in Go: truncated towards zero
Quot(v, m) ==
    IF IsNegative(v) THEN Negate(DivFrom(Negate(v), m, IntLimbs, 0))
    ELSE DivFrom(v, m, IntLimbs, 0)

-----------------------------------------------------------------------------
(* strconv.Atoi: an optional sign, then one or more decimal digits, the    *)
(* value within the range of int.                                          *)

Digits == <<"0", "1", "2", "3", "4", "5", "6", "7", "8", "9">>

IsDigit(ch) == \E d \in 1..10 : Digits[d] = ch

DigitOf(ch) == (CHOOSE d \in 1..10 : Digits[d] = ch) - 1

\* the magnitude of the digit string s read from position i; ovf: it left 64 bits
RECURSIVE Magnitude(_, _, _)
Magnitude(s, i, acc) ==
    IF i > Len(s) THEN acc
    ELSE LET r == MulAddFrom(acc.val, 10, DigitOf(s[i]), 1)
         IN  Magnitude(s, i + 1, [val |-> SubSeq(r, 1, IntLimbs),
                                  ovf |-> acc.ovf \/ r[IntLimbs + 1] # 0])

Atoi(s) ==
    LET signed == Len(s) > 0 /\ s[1] \in {"+", "-"}
        neg    == Len(s) > 0 /\ s[1] = "-"
        digs   == IF signed THEN Tail(s) ELSE s
        syntax == Len(digs) > 0 /\ \A i \in 1..Len(digs) : IsDigit(digs[i])
        mag    == Magnitude(digs, 1, [val |-> Int0, ovf |-> FALSE])
        val    == IF neg THEN Negate(mag.val) ELSE mag.val
        range  == /\ ~mag.ovf
                  /\ IF neg THEN mag.val = Int0 \/ IsNegative(val)
                            ELSE ~IsNegative(val)
    IN  IF syntax /\ range THEN [ok |-> TRUE, val |-> val]
        ELSE [ok |-> FALSE, val |-> Int0]

-----------------------------------------------------------------------------
(* max_storage_in_gigabytes: DiffSuppressFunc                              *)

DiffSuppressFunc(old, new) ==
    LET o == Atoi(old)
        n == Atoi(new)
    IN  IF ~o.ok THEN FALSE
        ELSE IF ~n.ok THEN FALSE
        ELSE LET oldVal == Times(Times(Times(o.val, 1024), 1024), 1024)
                 newVal == Times(Times(Times(n.val, 1024), 1024), 1024)
             IN  newVal = oldVal

-----------------------------------------------------------------------------
(* Gigabyte <-> byte conversion of the storage quota.  -1 ("unlimited")    *)
(* is passed through unconverted.                                          *)

GigabytlesToBytes(gb) ==
    IF gb = IntMinusOne THEN IntMinusOne
    ELSE Times(Times(Times(gb, 1024), 1024), 1024)

BytesToGigabytles(bytes) ==
    IF bytes = IntMinusOne THEN IntMinusOne
    ELSE Quot(Quot(Quot(bytes, 1024), 1024), 1024)

-----------------------------------------------------------------------------
(* The project resource: wire value, ResourceData, pack and unpack.        *)

NilPrivileges == [nil |-> TRUE]

NilProject == [nil |-> TRUE]

\* Project{} : the zero value the response is decoded into
ZeroProject ==
    [Key                    |-> "",
     DisplayName            |-> "",
     Description            |-> "",
     AdminPrivileges        |-> NilPrivileges,
     StorageQuota           |-> Int0,
     SoftLimit              |-> FALSE,
     QuotaEmailNotification |-> FALSE]

\* func (p Project) Id() string
ProjectId(p) == p.Key

\* the admin_privileges attribute: a set of blocks, or not present at all
NoBlocks == [exists |-> FALSE, list |-> <<>>]

Blocks(l) == [exists |-> TRUE, list |-> l]

\* a ResourceData of the project resource with no ID and nothing set
BlankProjectData ==
    [id                         |-> "",
     key                        |-> "",
     display_name               |-> "",
     description                |-> "",
     admin_privileges           |-> NoBlocks,
     max_storage_in_gigabytes   |-> Int0,
     block_deployments_on_limit |-> FALSE,
     email_notification         |-> FALSE]

\* unpackProject, had it treated the empty admin_privileges set as an error
unpackProjectEmptyIsError(d) ==
    LET project ==
            [Key                    |-> d.key,
             DisplayName            |-> d.display_name,
             Description            |-> d.description,
             AdminPrivileges        |-> NilPrivileges,
             StorageQuota           |-> GigabytlesToBytes(d.max_storage_in_gigabytes),
             SoftLimit              |-> d.block_deployments_on_limit,
             QuotaEmailNotification |-> d.email_notification]
        privileges == d.admin_privileges.list
    IN  IF d.admin_privileges.exists
        THEN IF Len(privileges) = 0
             THEN [project |-> NilProject, id |-> "", err |-> TRUE]
             ELSE LET adminPrivileges ==
                          [ManageMembers   |-> privileges[1].manage_members,
                           ManageResources |-> privileges[1].manage_resources,
                           IndexResources  |-> privileges[1].index_resources]
                      p == [project EXCEPT !.AdminPrivileges = adminPrivileges]
                  IN  [project |-> p, id |-> ProjectId(p), err |-> FALSE]
        ELSE [project |-> project, id |-> ProjectId(project), err |-> FALSE]

unpackProject(d) ==
    LET project ==
            [Key                    |-> d.key,
             DisplayName            |-> d.display_name,
             Description            |-> d.description,
             AdminPrivileges        |-> NilPrivileges,
             StorageQuota           |-> GigabytlesToBytes(d.max_storage_in_gigabytes),
             SoftLimit              |-> d.block_deployments_on_limit,
             QuotaEmailNotification |-> d.email_notification]
        privileges == d.admin_privileges.list
    IN  IF d.admin_privileges.exists
        THEN IF Len(privileges) = 0
             THEN [project |-> NilProject, id |-> "", err |-> FALSE]
             ELSE LET adminPrivileges ==
                          [ManageMembers   |-> privileges[1].manage_members,
                           ManageResources |-> privileges[1].manage_resources,
                           IndexResources  |-> privileges[1].index_resources]
                      p == [project EXCEPT !.AdminPrivileges = adminPrivileges]
                  IN  [project |-> p, id |-> ProjectId(p), err |-> FALSE]
        ELSE [project |-> project, id |-> ProjectId(project), err |-> FALSE]

\* packProject, had it stored the byte count as the number of gigabytes
packProjectQuotaInBytes(d, project) ==
    LET d1 == [d EXCEPT
                 !.key                        = project.Key,
                 !.display_name               = project.DisplayName,
                 !.description                = project.Description,
                 !.max_storage_in_gigabytes   = project.StorageQuota,
                 !.block_deployments_on_limit = project.SoftLimit,
                 !.email_notification         = project.QuotaEmailNotification]
    IN  IF project.AdminPrivileges # NilPrivileges
        THEN [d1 EXCEPT !.admin_privileges =
                 Blocks(<<[manage_members   |-> project.AdminPrivileges.ManageMembers,
                           manage_resources |-> project.AdminPrivileges.ManageResources,
                           index_resources  |-> project.AdminPrivileges.IndexResources]>>)]
        ELSE d1

packProject(d, project) ==
    LET d1 == [d EXCEPT
                 !.key                        = project.Key,
                 !.display_name               = project.DisplayName,
                 !.description                = project.Description,
                 !.max_storage_in_gigabytes   = BytesToGigabytles(project.StorageQuota),
                 !.block_deployments_on_limit = project.SoftLimit,
                 !.email_notification         = project.QuotaEmailNotification]
    IN  IF project.AdminPrivileges # NilPrivileges
        THEN [d1 EXCEPT !.admin_privileges =
                 Blocks(<<[manage_members   |-> project.AdminPrivileges.ManageMembers,
                           manage_resources |-> project.AdminPrivileges.ManageResources,
                           index_resources  |-> project.AdminPrivileges.IndexResources]>>)]
        ELSE d1

-----------------------------------------------------------------------------
(* The remote store and the requests sent to it.                           *)

NoRemote == [x \in {} |-> NilProject]

Stored(rem, path) == path \in DOMAIN rem

Put(rem, path, body) ==
    [x \in DOMAIN rem \cup {path} |-> IF x = path THEN body ELSE rem[x]]

Remove(rem, path) == [x \in DOMAIN rem \ {path} |-> rem[x]]

\* const projectsUrl, followed by the ID the request names ("" for the collection)
projectsUrl(id) == [url |-> "/access/api/v1/projects/", id |-> id]

Request(method, path, body) == [method |-> method, path |-> path, body |-> body]

\* what a handler hands back: the ResourceData, the store, the requests it
\* issued in order, and whether it returned error diagnostics
Outcome(d, rem, reqs, err) == [data |-> d, remote |-> rem, reqs |-> reqs, err |-> err]

-----------------------------------------------------------------------------
(* The project resource's CRUD handlers.  net says which request of the    *)
(* invocation the client fails: "send" (POST/PUT/DELETE), "get" or none.   *)

readProject(d, rem, net) ==
    LET get     == Request("GET", projectsUrl(d.id), NilProject)
        project == IF Stored(rem, d.id) THEN rem[d.id] ELSE ZeroProject
    IN  IF net = "get"
        THEN Outcome(d, rem, <<get>>, TRUE)
        ELSE Outcome(packProject(d, project), rem, <<get>>, FALSE)

createProject(d, rem, net) ==
    LET u    == unpackProject(d)
        post == Request("POST", projectsUrl(""), u.project)
    IN  IF u.err THEN Outcome(d, rem, <<>>, TRUE)
        ELSE IF net = "send" THEN Outcome(d, rem, <<post>>, TRUE)
        ELSE LET rem1 == IF u.project = NilProject THEN rem
                         ELSE Put(rem, u.project.Key, u.project)
                 d1   == [d EXCEPT !.id = u.id]
                 r    == readProject(d1, rem1, net)
             IN  [r EXCEPT !.reqs = <<post>> \o r.reqs]

updateProject(d, rem, net) ==
    LET u   == unpackProject(d)
        put == Request("PUT", projectsUrl(d.id), u.project)
    IN  IF u.err THEN Outcome(d, rem, <<>>, TRUE)
        ELSE IF net = "send" THEN Outcome(d, rem, <<put>>, TRUE)
        ELSE LET rem1 == IF u.project = NilProject THEN rem
                         ELSE Put(rem, d.id, u.project)
                 d1   == [d EXCEPT !.id = u.id]
                 r    == readProject(d1, rem1, net)
             IN  [r EXCEPT !.reqs = <<put>> \o r.reqs]

deleteProject(d, rem, net) ==
    LET delete == Request("DELETE", projectsUrl(d.id), NilProject)
    IN  IF net = "send" THEN Outcome(d, rem, <<delete>>, TRUE)
        ELSE Outcome(d, Remove(rem, d.id), <<delete>>, FALSE)

-----------------------------------------------------------------------------
(* The project group membership: wire value, ResourceData, pack, unpack.   *)

\* ProjectGroup{} : the zero value the response is decoded into
ZeroProjectGroup == [ProjectKey |-> <<>>, Name |-> <<>>, Roles |-> {}]

\* func (ProjectGroup) Id() string : "{projectKey}:{name}"
ProjectGroupId(g) == g.ProjectKey \o <<":">> \o g.Name

BlankGroupData == [id |-> <<>>, project_key |-> <<>>, name |-> <<>>, roles |-> {}]

unpackProjectGroup(d) ==
    [ProjectKey |-> d.project_key, Name |-> d.name, Roles |-> d.roles]

packProjectGroup(d, g) ==
    [d EXCEPT !.name = g.Name, !.project_key = g.ProjectKey, !.roles = g.Roles]

\* const projectGroupsUrl with its two path parameters
projectGroupsUrl(projectKey, name) ==
    [url        |-> "access/api/v1/projects/{projectKey}/groups/{name}",
     projectKey |-> projectKey,
     name       |-> name]

\* the membership as the remote keeps it and sends it back; whether and how
\* the response names the project is up to the remote (echo)
Membership(g) == [Name |-> g.Name, Roles |-> g.Roles]

Response(m, echo) == [ProjectKey |-> echo, Name |-> m.Name, Roles |-> m.Roles]

-----------------------------------------------------------------------------
(* The membership's handlers.                                              *)

\* readProjectGroup without the overwrite of the loaded ProjectKey
readProjectGroupKeepsRemoteKey(d, rem, net, echo) ==
    LET projectGroup == unpackProjectGroup(d)
        path   == projectGroupsUrl(projectGroup.ProjectKey, projectGroup.Name)
        get    == Request("GET", path, ZeroProjectGroup)
        loaded == IF Stored(rem, path) THEN Response(rem[path], echo)
                  ELSE ZeroProjectGroup
    IN  IF net = "get"
        THEN Outcome(d, rem, <<get>>, TRUE)
        ELSE Outcome(packProjectGroup(d, loaded), rem, <<get>>, FALSE)

readProjectGroup(d, rem, net, echo) ==
    LET projectGroup == unpackProjectGroup(d)
        path   == projectGroupsUrl(projectGroup.ProjectKey, projectGroup.Name)
        get    == Request("GET", path, ZeroProjectGroup)
        loaded == IF Stored(rem, path) THEN Response(rem[path], echo)
                  ELSE ZeroProjectGroup
        loadedProjectGroup == [loaded EXCEPT !.ProjectKey = projectGroup.ProjectKey]
    IN  IF net = "get"
        THEN Outcome(d, rem, <<get>>, TRUE)
        ELSE Outcome(packProjectGroup(d, loadedProjectGroup), rem, <<get>>, FALSE)

\* upsertProjectGroup, had it sent the PUT only for a membership the remote
\* does not hold yet
upsertProjectGroupOnlyIfAbsent(d, rem, net, echo) ==
    LET projectGroup == unpackProjectGroup(d)
        path == projectGroupsUrl(projectGroup.ProjectKey, projectGroup.Name)
        put  == Request("PUT", path, projectGroup)
        d1   == [d EXCEPT !.id = ProjectGroupId(projectGroup)]
    IN  IF Stored(rem, path) THEN readProjectGroup(d1, rem, net, echo)
        ELSE IF net = "send" THEN Outcome(d, rem, <<put>>, TRUE)
        ELSE LET rem1 == Put(rem, path, Membership(projectGroup))
                 r    == readProjectGroup(d1, rem1, net, echo)
             IN  [r EXCEPT !.reqs = <<put>> \o r.reqs]

upsertProjectGroup(d, rem, net, echo) ==
    LET projectGroup == unpackProjectGroup(d)
        path == projectGroupsUrl(projectGroup.ProjectKey, projectGroup.Name)
        put  == Request("PUT", path, projectGroup)
    IN  IF net = "send" THEN Outcome(d, rem, <<put>>, TRUE)
        ELSE LET rem1 == Put(rem, path, Membership(projectGroup))
                 d1   == [d EXCEPT !.id = ProjectGroupId(projectGroup)]
                 r    == readProjectGroup(d1, rem1, net, echo)
             IN  [r EXCEPT !.reqs = <<put>> \o r.reqs]

deleteProjectGroup(d, rem, net) ==
    LET projectGroup == unpackProjectGroup(d)
        path   == projectGroupsUrl(projectGroup.ProjectKey, projectGroup.Name)
        delete == Request("DELETE", path, ZeroProjectGroup)
    IN  IF net = "send" THEN Outcome(d, rem, <<delete>>, TRUE)
        ELSE Outcome([d EXCEPT !.id = <<>>], Remove(rem, path), <<delete>>, FALSE)

\* strings.Index, from position i: the first position of ch in s, or 0
RECURSIVE IndexFrom(_, _, _)
IndexFrom(s, ch, i) ==
    IF i > Len(s) THEN 0
    ELSE IF s[i] = ch THEN i
    ELSE IndexFrom(s, ch, i + 1)

\* strings.SplitN(s, sep, 2)
SplitN2(s, sep) ==
    LET i == IndexFrom(s, sep, 1)
    IN  IF i = 0 THEN <<s>>
        ELSE <<SubSeq(s, 1, i - 1), SubSeq(s, i + 1, Len(s))>>

\* importForProjectKeyGroupName without the checks for empty parts
importAcceptsEmptyParts(d) ==
    LET parts == SplitN2(d.id, ":")
    IN  IF Len(parts) # 2
        THEN Outcome(d, NoRemote, <<>>, TRUE)
        ELSE Outcome([d EXCEPT !.project_key = parts[1], !.name = parts[2]],
                     NoRemote, <<>>, FALSE)

\* importForProjectKeyGroupName, had it split the ID at another separator
importSplitsAtSlash(d) ==
    LET parts == SplitN2(d.id, "/")
    IN  IF Len(parts) # 2 \/ parts[1] = <<>> \/ parts[2] = <<>>
        THEN Outcome(d, NoRemote, <<>>, TRUE)
        ELSE Outcome([d EXCEPT !.project_key = parts[1], !.name = parts[2]],
                     NoRemote, <<>>, FALSE)

importForProjectKeyGroupName(d) ==
    LET parts == SplitN2(d.id, ":")
    IN  IF Len(parts) # 2 \/ parts[1] = <<>> \/ parts[2] = <<>>
        THEN Outcome(d, NoRemote, <<>>, TRUE)
        ELSE Outcome([d EXCEPT !.project_key = parts[1], !.name = parts[2]],
                     NoRemote, <<>>, FALSE)

-----------------------------------------------------------------------------
(* Configurations of the project resource that pass the schema's           *)
(* validation, and the ResourceData the SDK hands to a handler.            *)

ProjectKeys == {"abc", "abd"}

DisplayNames == {"n1", "n2"}

Descriptions == {"", "test description"}

PrivilegeBlocks ==
    {[manage_members |-> TRUE, manage_resources |-> TRUE, index_resources |-> TRUE],
     [manage_members |-> TRUE, manage_resources |-> FALSE, index_resources |-> FALSE]}

PrivilegeSets == {NoBlocks, Blocks(<<>>)} \cup {Blocks(<<b>>) : b \in PrivilegeBlocks}

\* max_storage_in_gigabytes: -1 or at least 1
MaxQuotaGB == 2

QuotaSettings == {IntMinusOne} \cup {IntOf(n) : n \in 1..MaxQuotaGB}

AllProjectConfigs ==
    [key                        : ProjectKeys,
     display_name               : DisplayNames,
     description                : Descriptions,
     admin_privileges           : PrivilegeSets,
     max_storage_in_gigabytes   : QuotaSettings,
     block_deployments_on_limit : BOOLEAN,
     email_notification         : BOOLEAN]

\* the configuration of the acceptance tests, with the schema's defaults
BaseConfig ==
    [key                        |-> "abc",
     display_name               |-> "n1",
     description                |-> "test description",
     admin_privileges           |->
         Blocks(<<[manage_members |-> TRUE, manage_resources |-> TRUE,
                   index_resources |-> TRUE]>>),
     max_storage_in_gigabytes   |-> IntMinusOne,
     block_deployments_on_limit |-> FALSE,
     email_notification         |-> FALSE]

\* the configurations applied: the base one, and each change of one attribute
ProjectConfigs ==
    {c \in AllProjectConfigs :
        Cardinality({f \in DOMAIN BaseConfig : c[f] # BaseConfig[f]}) <= 1}

\* the ResourceData of a create or update: the planned attributes, and the
\* ID the state holds ("" when the resource is new)
Planned(id, cfg) ==
    [id                         |-> id,
     key                        |-> cfg.key,
     display_name               |-> cfg.display_name,
     description                |-> cfg.description,
     admin_privileges           |-> cfg.admin_privileges,
     max_storage_in_gigabytes   |-> cfg.max_storage_in_gigabytes,
     block_deployments_on_limit |-> cfg.block_deployments_on_limit,
     email_notification         |-> cfg.email_notification]

\* a handler invocation: the ResourceData it was given and the one it left,
\* the requests it issued, whether it returned an error, what the client did
Invocation(op, before, r, net) ==
    [op |-> op, before |-> before, after |-> r.data, reqs |-> r.reqs,
     err |-> r.err, net |-> net, echo |-> <<>>, again |-> FALSE]

NoInvocation ==
    [op |-> "none", before |-> BlankProjectData, after |-> BlankProjectData,
     reqs |-> <<>>, err |-> FALSE, net |-> "none", echo |-> <<>>, again |-> FALSE]

-----------------------------------------------------------------------------
(* Actions: one per handler of the project resource.                       *)

CreateProject ==
    /\ rtype = "project"
    /\ data.id = ""
    /\ \E cfg \in ProjectConfigs, net \in {"none", "send", "get"} :
          LET d0 == Planned("", cfg)
              r  == createProject(d0, remote, net)
          IN  /\ data' = r.data
              /\ remote' = r.remote
              /\ last' = Invocation("create", d0, r, net)
    /\ UNCHANGED <<rtype, arg, result>>

UpdateProject ==
    /\ rtype = "project"
    /\ data.id # ""
    /\ \E cfg \in ProjectConfigs, net \in {"none", "send", "get"} :
          LET d0 == Planned(data.id, cfg)
              r  == updateProject(d0, remote, net)
          IN  /\ data' = r.data
              /\ remote' = r.remote
              /\ last' = Invocation("update", d0, r, net)
    /\ UNCHANGED <<rtype, arg, result>>

ReadProject ==
    /\ rtype = "project"
    /\ data.id # ""
    /\ \E net \in {"none", "get"} :
          LET r == readProject(data, remote, net)
          IN  /\ data' = r.data
              /\ remote' = r.remote
              /\ last' = Invocation("read", data, r, net)
    /\ UNCHANGED <<rtype, arg, result>>

\* after a delete without error the SDK drops the instance from the state
DeleteProject ==
    /\ rtype = "project"
    /\ data.id # ""
    /\ \E net \in {"none", "send"} :
          LET r == deleteProject(data, remote, net)
          IN  /\ data' = IF r.err THEN r.data ELSE BlankProjectData
              /\ remote' = r.remote
              /\ last' = Invocation("delete", data, r, net)
    /\ UNCHANGED <<rtype, arg, result>>

\* schema.ImportStatePassthroughContext: the given ID becomes the resource ID
ImportProject ==
    /\ rtype = "project"
    /\ data.id = ""
    /\ \E id \in ProjectKeys :
          /\ data' = [BlankProjectData EXCEPT !.id = id]
          /\ last' = [NoInvocation EXCEPT !.op = "import",
                                          !.before = [data EXCEPT !.id = id],
                                          !.after = [data EXCEPT !.id = id]]
    /\ UNCHANGED <<rtype, remote, arg, result>>

-----------------------------------------------------------------------------
(* Configurations of the membership, import IDs, and its actions.          *)

GroupProjectKeys == {<<"a", "b">>, <<"b">>}

GroupNames == {<<"a">>, <<"b", "a">>}

RoleSets == {{"developer"}, {"contributor", "developer"}}

GroupConfigs == [project_key : GroupProjectKeys, name : GroupNames, roles : RoleSets]

\* the project key a response may carry: none, or some key
EchoKeys == {<<>>, <<"b">>}

IdChars == {"a", "b", ":"}

MaxIdLen == 3

StringsUpTo(chars, n) == UNION {[1..k -> chars] : k \in 0..n}

\* what a user may hand to "terraform import": any short string, and the IDs
\* that upsert gives the configured memberships
ImportIds ==
    StringsUpTo(IdChars, MaxIdLen) \cup
    {ProjectGroupId(unpackProjectGroup(c)) : c \in GroupConfigs}

PlannedGroup(id, cfg) ==
    [id |-> id, project_key |-> cfg.project_key, name |-> cfg.name, roles |-> cfg.roles]

\* the invocation before this one was an upsert of the same configuration
\* that returned no error
SameUpsertAgain(d0) ==
    /\ last.op = "upsert"
    /\ ~last.err
    /\ unpackProjectGroup(last.before) = unpackProjectGroup(d0)

\* CreateContext: upsertProjectGroup
CreateProjectGroup ==
    /\ rtype = "project_group"
    /\ data.id = <<>>
    /\ \E cfg \in GroupConfigs, net \in {"none", "send", "get"}, echo \in EchoKeys :
          LET d0 == PlannedGroup(<<>>, cfg)
              r  == upsertProjectGroup(d0, remote, net, echo)
          IN  /\ net # "none" => echo = <<>>
              /\ data' = r.data
              /\ remote' = r.remote
              /\ last' = [Invocation("upsert", d0, r, net) EXCEPT !.echo = echo]
    /\ UNCHANGED <<rtype, arg, result>>

\* UpdateContext: upsertProjectGroup; project_key is ForceNew, so an update
\* never changes it
UpdateProjectGroup ==
    /\ rtype = "project_group"
    /\ data.id # <<>>
    /\ \E cfg \in GroupConfigs, net \in {"none", "send", "get"}, echo \in EchoKeys :
          LET d0 == PlannedGroup(data.id, cfg)
              r  == upsertProjectGroup(d0, remote, net, echo)
          IN  /\ cfg.project_key = data.project_key
              /\ net # "none" => echo = <<>>
              /\ data' = r.data
              /\ remote' = r.remote
              /\ last' = [Invocation("upsert", d0, r, net) EXCEPT
                             !.echo = echo, !.again = SameUpsertAgain(d0)]
    /\ UNCHANGED <<rtype, arg, result>>

ReadProjectGroup ==
    /\ rtype = "project_group"
    /\ data.id # <<>>
    /\ \E net \in {"none", "get"}, echo \in EchoKeys :
          LET r == readProjectGroup(data, remote, net, echo)
          IN  /\ net # "none" => echo = <<>>
              /\ data' = r.data
              /\ remote' = r.remote
              /\ last' = [Invocation("read", data, r, net) EXCEPT !.echo = echo]
    /\ UNCHANGED <<rtype, arg, result>>

DeleteProjectGroup ==
    /\ rtype = "project_group"
    /\ data.id # <<>>
    /\ \E net \in {"none", "send"} :
          LET r == deleteProjectGroup(data, remote, net)
          IN  /\ data' = IF r.err THEN r.data ELSE BlankGroupData
              /\ remote' = r.remote
              /\ last' = Invocation("delete", data, r, net)
    /\ UNCHANGED <<rtype, arg, result>>

\* Importer.State: the SDK hands over a ResourceData that holds the ID only,
\* and keeps nothing when the importer fails
ImportProjectGroup ==
    /\ rtype = "project_group"
    /\ data.id = <<>>
    /\ \E id \in ImportIds :
          LET d0 == [BlankGroupData EXCEPT !.id = id]
              r  == importForProjectKeyGroupName(d0)
          IN  /\ data' = IF r.err THEN BlankGroupData ELSE r.data
              /\ last' = Invocation("import", d0, r, "none")
    /\ UNCHANGED <<rtype, remote, arg, result>>

Init ==
    /\ rtype \in {"project", "project_group"}
    /\ data = IF rtype = "project" THEN BlankProjectData ELSE BlankGroupData
    /\ remote = NoRemote
    /\ last = NoInvocation
    /\ arg = NoArg
    /\ result = NoResult

Next ==
    \/ CreateProject
    \/ UpdateProject
    \/ ReadProject
    \/ DeleteProject
    \/ ImportProject
    \/ CreateProjectGroup
    \/ UpdateProjectGroup
    \/ ReadProjectGroup
    \/ DeleteProjectGroup
    \/ ImportProjectGroup

Spec == Init /\ [][Next]_vars

-----------------------------------------------------------------------------
(* The diff-suppression callback of max_storage_in_gigabytes on its own:   *)
(* the SDK calls it with the old and the new value as strings.             *)

TwoTo34 == <<"1", "7", "1", "7", "9", "8", "6", "9", "1", "8", "4">>

TwoTo34Plus1 == <<"1", "7", "1", "7", "9", "8", "6", "9", "1", "8", "5">>

MaxInt64 == <<"9", "2", "2", "3", "3", "7", "2", "0", "3", "6",
                  "8", "5", "4", "7", "7", "5", "8", "0", "7">>

MaxInt64Plus1 == <<"9", "2", "2", "3", "3", "7", "2", "0", "3", "6",
                   "8", "5", "4", "7", "7", "5", "8", "0", "8">>

SuppressStrings ==
    {<<>>, <<"-">>, <<"1", "a">>, <<"1", ".", "5">>,
     <<"0">>, <<"-", "0">>, <<"1">>, <<"0", "1">>, <<"+", "1">>, <<"-", "1">>,
     <<"2">>, <<"5">>, TwoTo34, TwoTo34Plus1, MaxInt64, MaxInt64Plus1,
     <<"-">> \o MaxInt64Plus1}

InitSuppress ==
    /\ rtype = "project"
    /\ data = BlankProjectData
    /\ remote = NoRemote
    /\ last = NoInvocation
    /\ arg \in [old : SuppressStrings, new : SuppressStrings]
    /\ result = NoResult

DiffSuppress ==
    /\ ~result.set
    /\ result' = Returned(DiffSuppressFunc(arg.old, arg.new))
    /\ UNCHANGED <<rtype, data, remote, last, arg>>

NextSuppress == DiffSuppress

SpecSuppress == InitSuppress /\ [][NextSuppress]_vars

-----------------------------------------------------------------------------
(* The storage quota on its way from the remote into the state (read:      *)
(* packProject) and from there into a request body (create, update:        *)
(* unpackProject).                                                         *)

MaxQuotaGiB == 40

GiB(n) == Times(Times(Times(IntOf(n), 1024), 1024), 1024)

\* (2^33 - 1) * 1024^3, the largest whole number of gigabytes an int holds
LargestGiB == <<0, 49152, 65535, 32767>>

\* a byte count is a non-negative multiple of 1024^3
IsWholeGiB(bytes) == ~IsNegative(bytes) /\ bytes[1] = 0 /\ bytes[2] % 16384 = 0

\* byte counts a remote may report: whole gigabytes, the sentinel, and
\* counts that are neither
QuotaBytes ==
    {GiB(n) : n \in 0..MaxQuotaGiB} \cup {LargestGiB, IntMinusOne} \cup
    {[GiB(n) EXCEPT ![1] = 1] : n \in 0..1} \cup {Negate(IntOf(2))}

InitQuota ==
    /\ rtype = "project"
    /\ data = BlankProjectData
    /\ remote = NoRemote
    /\ last = NoInvocation
    /\ arg \in {[ZeroProject EXCEPT !.Key = "abc", !.StorageQuota = b] : b \in QuotaBytes}
    /\ result = NoResult

PackQuota ==
    /\ last.op = "none"
    /\ data' = packProject(data, arg)
    /\ last' = [NoInvocation EXCEPT !.op = "pack"]
    /\ UNCHANGED <<rtype, remote, arg, result>>

UnpackQuota ==
    /\ last.op = "pack"
    /\ result' = Returned(unpackProject(data).project)
    /\ last' = [NoInvocation EXCEPT !.op = "unpack"]
    /\ UNCHANGED <<rtype, data, remote, arg>>

NextQuota == PackQuota \/ UnpackQuota

SpecQuota == InitQuota /\ [][NextQuota]_vars

-----------------------------------------------------------------------------
(* Properties.                                                             *)

Methods(reqs) == [i \in 1..Len(reqs) |-> reqs[i].method]

IsProjectOp(ops) == rtype = "project" /\ last.op \in ops

IsGroupOp(ops) == rtype = "project_group" /\ last.op \in ops

\* C1: a project create that returns no error has issued exactly a POST to
\* the projects endpoint and then a GET of the project, the resource ID being
\* the configured key from after the POST on (so the GET names it); an update
\* that returns no error has issued exactly a PUT and then a GET; a read and a
\* delete issue exactly one request each.
C1_CreateUpdateRequestOrder ==
    /\ (IsProjectOp({"create"}) /\ ~last.err) =>
          /\ Methods(last.reqs) = <<"POST", "GET">>
          /\ last.reqs[1].path = projectsUrl("")
          /\ last.reqs[2].path = projectsUrl(last.before.key)
          /\ last.after.id = last.before.key
    /\ (IsProjectOp({"update"}) /\ ~last.err) =>
          Methods(last.reqs) = <<"PUT", "GET">>
    /\ IsProjectOp({"read"}) => Methods(last.reqs) = <<"GET">>
    /\ IsProjectOp({"delete"}) => Methods(last.reqs) = <<"DELETE">>

\* C2: a project update leaves the resource ID as it was, whatever the new
\* configuration holds (a changed key included), and its PUT and its GET both
\* name that ID.  Stated for the updates whose admin_privileges set is not
\* empty.
C2_UpdateKeepsIdentity ==
    (IsProjectOp({"update"}) /\ last.before.admin_privileges # Blocks(<<>>)) =>
        /\ last.after.id = last.before.id
        /\ \A i \in 1..Len(last.reqs) : last.reqs[i].path = projectsUrl(last.before.id)

\* C3: a project create or update whose admin_privileges set is present but
\* empty unpacks to a null project with no error, goes on with that null value
\* (it is the body of the request sent), and returns an error only if the
\* client failed a request.
C3_EmptyPrivilegesIsNoError ==
    (IsProjectOp({"create", "update"}) /\ last.before.admin_privileges = Blocks(<<>>)) =>
        /\ unpackProject(last.before) = [project |-> NilProject, id |-> "", err |-> FALSE]
        /\ Len(last.reqs) >= 1
        /\ last.reqs[1].body = NilProject
        /\ last.err => last.net # "none"

C3_Witness ==
    /\ IsProjectOp({"create"})
    /\ last.before.admin_privileges = Blocks(<<>>)
    /\ last.before.key = "abc"
    /\ ~last.err

\* C4: a byte count that is a non-negative multiple of 1024^3, or -1, comes
\* back unchanged when it is packed into the state (bytes to gigabytes) and
\* unpacked from it (gigabytes to bytes); -1 is -1 in the state as well.
C4_QuotaRoundTrip ==
    (last.op = "unpack" /\ result.set) =>
        /\ (IsWholeGiB(arg.StorageQuota) \/ arg.StorageQuota = IntMinusOne) =>
               result.val.StorageQuota = arg.StorageQuota
        /\ arg.StorageQuota = IntMinusOne => data.max_storage_in_gigabytes = IntMinusOne

C4_Witness ==
    /\ last.op = "unpack"
    /\ result.set
    /\ arg.StorageQuota = GiB(3)
    /\ data.max_storage_in_gigabytes = IntOf(3)

\* the decimal integer a string of Atoi's syntax denotes: sign and digits
\* without leading zeros
RECURSIVE StripZeros(_)
StripZeros(s) == IF Len(s) > 1 /\ s[1] = "0" THEN StripZeros(Tail(s)) ELSE s

Denoted(s) ==
    LET digs == IF s[1] \in {"+", "-"} THEN Tail(s) ELSE s
        mag  == StripZeros(digs)
    IN  [neg |-> s[1] = "-" /\ mag # <<"0">>, mag |-> mag]

\* C5: the diff-suppression function returns false when old or new does not
\* parse as an integer; for two integers it returns true when their byte
\* values a*1024^3 and b*1024^3 are equal and false when they differ (the
\* byte values are equal exactly when a = b).
C5_SuppressIffSameBytes ==
    result.set =>
        IF Atoi(arg.old).ok /\ Atoi(arg.new).ok
        THEN result.val = (Denoted(arg.old) = Denoted(arg.new))
        ELSE result.val = FALSE

\* the first colon of id is at position i and has text on both sides
SplitsAt(id, i) ==
    /\ 1 < i
    /\ i < Len(id)
    /\ id[i] = ":"
    /\ \A j \in 1..(i - 1) : id[j] # ":"

\* C6: the membership import fails, setting neither project_key nor name,
\* unless the ID is two non-empty parts around its first ':'; then it sets
\* project_key to the first part and name to the second and succeeds.
C6_ImportSplitsOrFails ==
    IsGroupOp({"import"}) =>
        LET id == last.before.id
        IN  IF \E i \in 1..Len(id) : SplitsAt(id, i)
            THEN /\ ~last.err
                 /\ \E i \in 1..Len(id) :
                       /\ SplitsAt(id, i)
                       /\ last.after.project_key = SubSeq(id, 1, i - 1)
                       /\ last.after.name = SubSeq(id, i + 1, Len(id))
            ELSE /\ last.err
                 /\ last.after.project_key = last.before.project_key
                 /\ last.after.name = last.before.name
                 /\ data = BlankGroupData

C6_Witness ==
    /\ IsGroupOp({"import"})
    /\ last.err
    /\ last.before.id = <<":", "a">>

\* non-empty strings without a colon
Words == StringsUpTo(IdChars \ {":"}, MaxIdLen) \ {<<>>}

\* C7: for every non-empty projectKey and name without a colon, importing the
\* ID that upsert sets for them yields project_key = projectKey and
\* name = name.
C7_ImportInvertsId ==
    IsGroupOp({"import"}) =>
        \A projectKey \in Words, name \in Words :
            last.before.id =
                upsertProjectGroup(PlannedGroup(<<>>, [project_key |-> projectKey,
                                                       name |-> name, roles |-> {}]),
                                   NoRemote, "none", <<>>).data.id
            => /\ ~last.err
               /\ last.after.project_key = projectKey
               /\ last.after.name = name
               /\ data = last.after

C7_Witness ==
    /\ IsGroupOp({"import"})
    /\ \E c \in GroupConfigs :
          /\ last.before.id = ProjectGroupId(unpackProjectGroup(c))
          /\ data.project_key = c.project_key
          /\ data.name = c.name
          /\ Len(c.project_key) > 1

\* C8: every upsert sends one PUT with the whole membership as its body,
\* whether or not the remote holds the membership; and an upsert that follows
\* an upsert of the same configuration (neither returning an error) leaves the
\* remote, the resource ID and the state as the first one left them.
C8_UpsertIdempotent ==
    [][ /\ (rtype' = "project_group" /\ last'.op = "upsert") =>
              /\ Len(last'.reqs) >= 1
              /\ last'.reqs[1] =
                    Request("PUT",
                            projectGroupsUrl(last'.before.project_key, last'.before.name),
                            unpackProjectGroup(last'.before))
              /\ \A i \in 2..Len(last'.reqs) : last'.reqs[i].method # "PUT"
        /\ (rtype' = "project_group" /\ last'.op = "upsert" /\ last'.again /\ ~last'.err) =>
              /\ remote' = remote
              /\ data' = data
      ]_vars

C8_Witness ==
    /\ IsGroupOp({"upsert"})
    /\ last.again
    /\ ~last.err
    /\ last.before.roles = {"contributor", "developer"}

\* C9: a membership read that returns no error leaves project_key in the
\* state as it was, whatever project key the response carries.
C9_ReadKeepsProjectKey ==
    (IsGroupOp({"read"}) /\ ~last.err) =>
        /\ last.after.project_key = last.before.project_key
        /\ data.project_key = last.before.project_key

C9_Witness ==
    /\ IsGroupOp({"read"})
    /\ ~last.err
    /\ last.before.project_key = <<"a", "b">>
    /\ last.echo = <<"b">>
    /\ Stored(remote, projectGroupsUrl(last.before.project_key, last.before.name))

\* the identity a create, update or upsert is to give the resource
IntendedId ==
    IF rtype = "project" THEN last.before.key
    ELSE ProjectGroupId(unpackProjectGroup(last.before))

NoId == IF rtype = "project" THEN "" ELSE <<>>

\* C10: an invocation whose request the client fails returns an error and
\* issues nothing after the failed request.  When the POST/PUT of a create,
\* update or upsert fails, the resource ID is left as it was; when the GET
\* that follows it fails, the resource ID is already set and the other
\* attributes are as they were before the read.
C10_TransportFailureIsTerminal ==
    /\ last.net # "none" => last.err
    /\ (last.op \in {"create", "update", "upsert"} /\ last.net = "send") =>
          /\ Len(last.reqs) = 1
          /\ last.reqs[1].method \in {"POST", "PUT"}
          /\ last.after = last.before
    /\ (last.op \in {"create", "update", "upsert"} /\ last.net = "get") =>
          /\ Len(last.reqs) = 2
          /\ last.reqs[1].method \in {"POST", "PUT"}
          /\ last.reqs[2].method = "GET"
          /\ last.after.id # NoId
          /\ last.after.id = IntendedId
          /\ last.after = [last.before EXCEPT !.id = last.after.id]
    /\ (last.op \in {"read", "delete"} /\ last.net # "none") =>
          /\ Len(last.reqs) = 1
          /\ last.after = last.before

\* C11: after every create or update of the project resource that returns
\* without error, against the store that keeps each submitted project as it
\* was sent, the state's key, display_name and description are those of the
\* configuration that was applied.
C11_ApplyLeavesConfiguredValues ==
    (rtype = "project" /\ last.op \in {"create", "update"} /\ ~last.err) =>
        /\ last.after.key = last.before.key
        /\ last.after.display_name = last.before.display_name
        /\ last.after.description = last.before.description

====
